---- MODULE Spec2Model ----
(***************************************************************************)
(* Model of the Tavily search tool server (tavily_server.py): the          *)
(* model-level domain-list validator SearchBase.parse_domains_list, the    *)
(* three tool handlers tavily_web_search / tavily_answer_search /          *)
(* tavily_news_search and the formatter format_results.                    *)
(*                                                                         *)
(* A Python str is a sequence of one-character strings, so that strip,     *)
(* split, join and json.loads are computed character by character.         *)
(***************************************************************************)
EXTENDS Integers, Sequences, FiniteSets, TLC

VARIABLES
  raw, nres, hres,                  \* one raw domain value and its two normalisations
  tool, args, pc, locals,           \* the tool invocations
  reply, response, result,
  calls,                            \* the requests the search provider has received
  fresp, ftext                      \* one SearchResponse and its rendering

normVars == <<raw, nres, hres>>
invVars == <<tool, args, pc, locals, calls, reply, response, result>>
fmtVars == <<fresp, ftext>>
vars == <<normVars, invVars, fmtVars>>

(***************************************************************************)
(* Bounds of the explored inputs.                                          *)
(***************************************************************************)
MaxLen == 4
MaxElems == 2
MaxResults == 2
NInv == 2

(***************************************************************************)
(* Python str helpers.                                                     *)
(***************************************************************************)
SeqMin(S) == CHOOSE m \in S : \A k \in S : m <= k
SeqMax(S) == CHOOSE m \in S : \A k \in S : m >= k

\* The characters str.strip() removes, among those of the explored alphabet.
IsSpace(c) == c = " "

\* str.strip()
strip(s) ==
  LET keep == {i \in 1..Len(s) : ~IsSpace(s[i])}
  IN  IF keep = {} THEN <<>> ELSE SubSeq(s, SeqMin(keep), SeqMax(keep))

\* sep in s
Contains(s, c) == \E i \in 1..Len(s) : s[i] = c

\* str.split(sep) for a one-character separator: always at least one piece.
RECURSIVE split(_, _)
split(s, sep) ==
  LET at == {i \in 1..Len(s) : s[i] = sep}
  IN  IF at = {} THEN <<s>>
      ELSE LET i == SeqMin(at)
           IN  <<SubSeq(s, 1, i - 1)>> \o split(SubSeq(s, i + 1, Len(s)), sep)

\* sep.join(parts)
RECURSIVE join(_, _)
join(sep, parts) ==
  IF parts = <<>> THEN <<>>
  ELSE IF Len(parts) = 1 THEN parts[1]
  ELSE parts[1] \o sep \o join(sep, Tail(parts))

(***************************************************************************)
(* json.loads, on the characters of the explored alphabet plus the three   *)
(* literals.  A JSON value is [t, v]: "str" (v the characters), "num"      *)
(* (v the integer), "list" (v the elements), "null", "bool"; "err" is      *)
(* json.JSONDecodeError.                                                   *)
(***************************************************************************)
Digits == {"0", "1", "2", "3", "4", "5", "6", "7", "8", "9"}

DigitVal(c) ==
  CASE c = "0" -> 0 [] c = "1" -> 1 [] c = "2" -> 2 [] c = "3" -> 3 [] c = "4" -> 4
    [] c = "5" -> 5 [] c = "6" -> 6 [] c = "7" -> 7 [] c = "8" -> 8 [] c = "9" -> 9

RECURSIVE NumVal(_)
NumVal(ds) ==
  IF ds = <<>> THEN 0
  ELSE NumVal(SubSeq(ds, 1, Len(ds) - 1)) * 10 + DigitVal(ds[Len(ds)])

\* The JSON whitespace skipped between tokens.
SkipWs(s, i) ==
  LET stop == {j \in i..Len(s) : s[j] # " "}
  IN  IF stop = {} THEN Len(s) + 1 ELSE SeqMin(stop)

JFail == [ok |-> FALSE, val |-> [t |-> "err", v |-> <<>>], next |-> 0]
JOk(val, next) == [ok |-> TRUE, val |-> val, next |-> next]

StartsWith(s, i, lit) ==
  /\ i + Len(lit) - 1 <= Len(s)
  /\ SubSeq(s, i, i + Len(lit) - 1) = lit

LitNull == <<"n", "u", "l", "l">>
LitTrue == <<"t", "r", "u", "e">>
LitFalse == <<"f", "a", "l", "s", "e">>

RECURSIVE ParseValue(_, _), ParseElems(_, _, _)
ParseValue(s, i) ==
  IF i > Len(s) THEN JFail
  ELSE IF s[i] = "\"" THEN
    LET close == {j \in (i + 1)..Len(s) : s[j] = "\""}
    IN  IF close = {} THEN JFail
        ELSE LET j == SeqMin(close)
             IN  JOk([t |-> "str", v |-> SubSeq(s, i + 1, j - 1)], j + 1)
  ELSE IF s[i] = "[" THEN
    LET k == SkipWs(s, i + 1)
    IN  IF k <= Len(s) /\ s[k] = "]"
        THEN JOk([t |-> "list", v |-> <<>>], k + 1)
        ELSE ParseElems(s, k, <<>>)
  ELSE IF s[i] \in Digits THEN
    LET nondigit == {j \in i..Len(s) : s[j] \notin Digits}
        run == IF nondigit = {} THEN Len(s) + 1 ELSE SeqMin(nondigit)
        \* a leading 0 is a number on its own
        end == IF s[i] = "0" THEN i + 1 ELSE run
    IN  JOk([t |-> "num", v |-> NumVal(SubSeq(s, i, end - 1))], end)
  ELSE IF StartsWith(s, i, LitNull) THEN JOk([t |-> "null", v |-> <<>>], i + 4)
  ELSE IF StartsWith(s, i, LitTrue) THEN JOk([t |-> "bool", v |-> TRUE], i + 4)
  ELSE IF StartsWith(s, i, LitFalse) THEN JOk([t |-> "bool", v |-> FALSE], i + 5)
  ELSE JFail

ParseElems(s, i, acc) ==
  LET r == ParseValue(s, i)
  IN  IF ~r.ok THEN JFail
      ELSE LET k == SkipWs(s, r.next)
               got == Append(acc, r.val)
           IN  IF k > Len(s) THEN JFail
               ELSE IF s[k] = "," THEN ParseElems(s, SkipWs(s, k + 1), got)
               ELSE IF s[k] = "]" THEN JOk([t |-> "list", v |-> got], k + 1)
               ELSE JFail

json_loads(s) ==
  LET r == ParseValue(s, SkipWs(s, 1))
  IN  IF r.ok /\ SkipWs(s, r.next) > Len(s) THEN r.val ELSE JFail.val

(***************************************************************************)
(* SearchBase.parse_domains_list.  A raw Python value is [t, v]: "none",   *)
(* "list" (v the elements, raw values), "str" (v the characters), "int".   *)
(* The outcome is [t, v, exc]: "ok" with the returned list v, or "raise"   *)
(* with the exception exc.                                                 *)
(***************************************************************************)
Returned(l) == [t |-> "ok", v |-> l, exc |-> ""]
Raised(e) == [t |-> "raise", v |-> <<>>, exc |-> e]
Pending == [t |-> "pending", v |-> <<>>, exc |-> ""]

\* [domain.strip() for domain in l if domain.strip()], given str elements
StripAndDrop(l) ==
  LET stripped == [i \in 1..Len(l) |-> strip(l[i].v)]
  IN  SelectSeq(stripped, LAMBDA d : d # <<>>)

\* The same comprehension over elements of any type: .strip() exists on str only.
StripList(l) ==
  IF \A i \in 1..Len(l) : l[i].t = "str"
  THEN Returned(StripAndDrop(l))
  ELSE Raised("AttributeError")

parse_domains_list(v) ==
  IF v.t = "none" THEN Returned(<<>>)
  ELSE IF v.t = "list" THEN StripList(v.v)
  ELSE IF v.t = "str" THEN
    LET s == strip(v.v)
    IN  IF s = <<>> THEN Returned(<<>>)
        ELSE LET parsed == json_loads(s)
             IN  IF parsed.t = "err" THEN
                   IF Contains(s, ",")
                   THEN Returned(StripAndDrop([i \in 1..Len(split(s, ",")) |->
                                    [t |-> "str", v |-> split(s, ",")[i]]]))
                   ELSE Returned(<<s>>)
                 ELSE IF parsed.t = "list" THEN StripList(parsed.v)
                 ELSE IF parsed.t = "str" THEN Returned(<<strip(parsed.v)>>)
                 ELSE Raised("AttributeError")
  ELSE Returned(<<>>)

\* Variant: the pieces are kept as split, without strip().
ParseDomainParamNoStrip(s) ==
  IF s # <<>> /\ strip(s) # <<>>
  THEN SelectSeq(split(s, ","), LAMBDA d : strip(d) # <<>>)
  ELSE <<>>

(***************************************************************************)
(* The handlers' own parsing of a comma-separated domain parameter.        *)
(***************************************************************************)
ParseDomainParam(s) ==
  IF s # <<>> /\ strip(s) # <<>>
  THEN LET pieces == split(s, ",")
       IN  SelectSeq([i \in 1..Len(pieces) |-> strip(pieces[i])], LAMBDA d : d # <<>>)
  ELSE <<>>

(***************************************************************************)
(* Explored raw values.                                                    *)
(***************************************************************************)
Alphabet == {"a", " ", ",", "\"", "[", "]", "1"}

StringsUpTo(n) == UNION {[1..k -> Alphabet] : k \in 0..n}

Str(s) == [t |-> "str", v |-> s]

DomainAtoms == {<<"a">>, <<"b">>, <<" ", "a">>, <<" ">>, <<>>}

ListsOf(S) == UNION {[1..k -> S] : k \in 0..MaxElems}

\* json.dumps of a list of str (no character of DomainAtoms needs escaping)
Quote(s) == <<"\"">> \o s \o <<"\"">>
JsonArrayText(l) ==
  <<"[">> \o join(<<",", " ">>, [i \in 1..Len(l) |-> Quote(l[i])]) \o <<"]">>

LiteralTexts == {LitNull, LitTrue, LitFalse, <<"0", "1">>, <<"1", "0">>}

StrInputs ==
  {Str(s) : s \in StringsUpTo(MaxLen)}
    \cup {Str(JsonArrayText(l)) : l \in ListsOf(DomainAtoms)}
    \cup {Str(s) : s \in LiteralTexts}

ListInputs ==
  {[t |-> "list", v |-> l] :
     l \in ListsOf({Str(d) : d \in DomainAtoms} \cup {[t |-> "int", v |-> 1]})}

RawInputs ==
  {[t |-> "none", v |-> <<>>], [t |-> "int", v |-> 5]} \cup ListInputs \cup StrInputs


(***************************************************************************)
(* format_results.  A response dict is [answer, results, included_domains, *)
(* excluded_domains]; an optional key is <<>> when absent and <<value>>    *)
(* when present, and dict.get(key) is true when the value is present and   *)
(* non-empty.  A result item is [title, url, content, published_date].     *)
(***************************************************************************)
TxtIncluding == <<"I", "n", "c", "l", "u", "d", "i", "n", "g", " ", "d", "o", "m", "a", "i", "n", "s", ":", " ">>
TxtExcluding == <<"E", "x", "c", "l", "u", "d", "i", "n", "g", " ", "d", "o", "m", "a", "i", "n", "s", ":", " ">>
TxtSearchFilters == <<"S", "e", "a", "r", "c", "h", " ", "F", "i", "l", "t", "e", "r", "s", ":">>
TxtAnswer == <<"A", "n", "s", "w", "e", "r", ":", " ">>
TxtSources == <<"\n", "S", "o", "u", "r", "c", "e", "s", ":">>
TxtDash == <<"-", " ">>
TxtColon == <<":", " ">>
TxtCommaSpace == <<",", " ">>
TxtDetailed == <<"D", "e", "t", "a", "i", "l", "e", "d", " ", "R", "e", "s", "u", "l", "t", "s", ":">>
TxtTitle == <<"\n", "T", "i", "t", "l", "e", ":", " ">>
TxtURL == <<"U", "R", "L", ":", " ">>
TxtContent == <<"C", "o", "n", "t", "e", "n", "t", ":", " ">>
TxtPublished == <<"P", "u", "b", "l", "i", "s", "h", "e", "d", ":", " ">>
NL == <<"\n">>

Absent == <<>>
Some(x) == <<x>>
Truthy(opt) == opt # <<>> /\ opt[1] # <<>>

\* the "- <title>: <url>" references appended under the answer
SourceLines(results) ==
  [i \in 1..Len(results) |-> TxtDash \o results[i].title \o TxtColon \o results[i].url]

\* the strings appended for each result after "Detailed Results:"
RECURSIVE DetailLines(_)
DetailLines(results) ==
  IF results = <<>> THEN <<>>
  ELSE LET r == Head(results)
       IN  <<TxtTitle \o r.title, TxtURL \o r.url, TxtContent \o r.content>>
             \o (IF Truthy(r.published_date)
                 THEN <<TxtPublished \o r.published_date[1]>> ELSE <<>>)
             \o DetailLines(Tail(results))

\* Variant: the "Sources:" string is appended without its leading newline.
FormatOutputPlainSources(resp) ==
  LET filters ==
        (IF Truthy(resp.included_domains)
         THEN <<TxtIncluding \o join(TxtCommaSpace, resp.included_domains[1])>> ELSE <<>>)
        \o (IF Truthy(resp.excluded_domains)
            THEN <<TxtExcluding \o join(TxtCommaSpace, resp.excluded_domains[1])>> ELSE <<>>)
      filterPart ==
        IF Truthy(resp.included_domains) \/ Truthy(resp.excluded_domains)
        THEN <<TxtSearchFilters>> \o filters \o <<<<>>>>
        ELSE <<>>
      answerPart ==
        IF Truthy(resp.answer)
        THEN <<TxtAnswer \o resp.answer[1], Tail(TxtSources)>>
               \o SourceLines(resp.results) \o <<<<>>>>
        ELSE <<>>
  IN  filterPart \o answerPart \o <<TxtDetailed>> \o DetailLines(resp.results)

FormatOutput(resp) ==
  LET filters ==
        (IF Truthy(resp.included_domains)
         THEN <<TxtIncluding \o join(TxtCommaSpace, resp.included_domains[1])>> ELSE <<>>)
        \o (IF Truthy(resp.excluded_domains)
            THEN <<TxtExcluding \o join(TxtCommaSpace, resp.excluded_domains[1])>> ELSE <<>>)
      filterPart ==
        IF Truthy(resp.included_domains) \/ Truthy(resp.excluded_domains)
        THEN <<TxtSearchFilters>> \o filters \o <<<<>>>>
        ELSE <<>>
      answerPart ==
        IF Truthy(resp.answer)
        THEN <<TxtAnswer \o resp.answer[1], TxtSources>>
               \o SourceLines(resp.results) \o <<<<>>>>
        ELSE <<>>
  IN  filterPart \o answerPart \o <<TxtDetailed>> \o DetailLines(resp.results)

format_results(resp) == join(NL, FormatOutput(resp))

(***************************************************************************)
(* The tool handlers.  Each invocation i has its own parameters args[i],   *)
(* its own locals (include_list, exclude_list, response) and its own       *)
(* outcome; reply[i] is what the search provider answers to the call of    *)
(* invocation i.  A handler runs up to client.search, and resumes when the *)
(* provider has replied.                                                   *)
(***************************************************************************)
Inv == 1..NInv

WebTool == "tavily_web_search"
AnswerTool == "tavily_answer_search"
NewsTool == "tavily_news_search"

NoResult == [t |-> "none", text |-> <<>>, kind |-> "", message |-> ""]
TextResult(s) == [t |-> "text", text |-> s, kind |-> "", message |-> ""]
McpError(kind, msg) == [t |-> "McpError", text |-> <<>>, kind |-> kind, message |-> msg]
Propagated(e) == [t |-> "exception", text |-> <<>>, kind |-> e.type, message |-> e.msg]

NoLocals == [include_list |-> <<>>, exclude_list |-> <<>>]

\* Variant: search_depth is passed on as given.
DepthAsGiven(depth, default) == depth

\* if search_depth not in ["basic", "advanced"]: search_depth = <default>
DepthOrDefault(depth, default) ==
  IF depth \notin {"basic", "advanced"} THEN default ELSE depth

\* client.search(**kwargs): one outbound call of invocation i
client_search(i, kwargs) ==
  calls' = Append(calls, [inv |-> i, kwargs |-> kwargs])

\* the calls invocation i has made, in order
CallsOf(i) == SelectSeq(calls, LAMBDA c : c.inv = i)

tavily_web_search(i) ==
  /\ pc[i] = "ready"
  /\ tool[i] = WebTool
  /\ LET search_depth == DepthOrDefault(args[i].search_depth, "basic")
         include_list == ParseDomainParam(args[i].include_domains)
         exclude_list == ParseDomainParam(args[i].exclude_domains)
     IN  /\ locals' = [locals EXCEPT ![i] =
                         [include_list |-> include_list, exclude_list |-> exclude_list]]
         /\ client_search(i, [query |-> args[i].query,
                              max_results |-> args[i].max_results,
                              search_depth |-> search_depth,
                              include_domains |-> include_list,
                              exclude_domains |-> exclude_list])
  /\ pc' = [pc EXCEPT ![i] = "awaiting"]
  /\ UNCHANGED <<tool, args, reply, response, result, normVars, fmtVars>>

tavily_answer_search(i) ==
  /\ pc[i] = "ready"
  /\ tool[i] = AnswerTool
  /\ LET search_depth == DepthOrDefault(args[i].search_depth, "advanced")
         include_list == ParseDomainParam(args[i].include_domains)
         exclude_list == ParseDomainParam(args[i].exclude_domains)
     IN  /\ locals' = [locals EXCEPT ![i] =
                         [include_list |-> include_list, exclude_list |-> exclude_list]]
         /\ client_search(i, [query |-> args[i].query,
                              max_results |-> args[i].max_results,
                              search_depth |-> search_depth,
                              include_answer |-> TRUE,
                              include_domains |-> include_list,
                              exclude_domains |-> exclude_list])
  /\ pc' = [pc EXCEPT ![i] = "awaiting"]
  /\ UNCHANGED <<tool, args, reply, response, result, normVars, fmtVars>>

tavily_news_search(i) ==
  /\ pc[i] = "ready"
  /\ tool[i] = NewsTool
  /\ LET include_list == ParseDomainParam(args[i].include_domains)
         exclude_list == ParseDomainParam(args[i].exclude_domains)
     IN  /\ locals' = [locals EXCEPT ![i] =
                         [include_list |-> include_list, exclude_list |-> exclude_list]]
         /\ client_search(i, [query |-> args[i].query,
                              max_results |-> args[i].max_results,
                              topic |-> "news",
                              days |-> args[i].days,
                              include_domains |-> include_list,
                              exclude_domains |-> exclude_list])
  /\ pc' = [pc EXCEPT ![i] = "awaiting"]
  /\ UNCHANGED <<tool, args, reply, response, result, normVars, fmtVars>>

\* Variant: include_list / exclude_list are module-level, last written by invocation 1.
LocalsShared(i) == locals[1]

\* the locals of invocation i when its handler resumes
LocalsOf(i) == locals[i]

\* Variant: the two lists are attached under each other's key.
AttachFiltersSwapped(resp, include_list, exclude_list) ==
  [resp EXCEPT !.included_domains = IF exclude_list # <<>> THEN Some(exclude_list) ELSE @,
               !.excluded_domains = IF include_list # <<>> THEN Some(include_list) ELSE @]

\* response["included_domains"] = include_list / response["excluded_domains"] = ...
AttachFilters(resp, include_list, exclude_list) ==
  [resp EXCEPT !.included_domains = IF include_list # <<>> THEN Some(include_list) ELSE @,
               !.excluded_domains = IF exclude_list # <<>> THEN Some(exclude_list) ELSE @]

\* Variant: the two error codes are exchanged.
HandleExceptionSwapped(e) ==
  IF e.type \in {"InvalidAPIKeyError", "UsageLimitExceededError"}
  THEN McpError("invalid_params", e.msg)
  ELSE IF e.type = "ValueError" THEN McpError("internal_error", e.msg)
  ELSE Propagated(e)

\* the except clauses of a handler
HandleException(e) ==
  IF e.type \in {"InvalidAPIKeyError", "UsageLimitExceededError"}
  THEN McpError("internal_error", e.msg)
  ELSE IF e.type = "ValueError" THEN McpError("invalid_params", e.msg)
  ELSE Propagated(e)

\* client.search returned: attach the filters, format, return the text
SearchReturns(i) ==
  /\ pc[i] = "awaiting"
  /\ reply[i].t = "ok"
  /\ LET resp == AttachFilters(reply[i].response,
                               LocalsOf(i).include_list, LocalsOf(i).exclude_list)
     IN  /\ response' = [response EXCEPT ![i] = Some(resp)]
         /\ result' = [result EXCEPT ![i] = TextResult(format_results(resp))]
  /\ pc' = [pc EXCEPT ![i] = "returned"]
  /\ UNCHANGED <<tool, args, locals, calls, reply, normVars, fmtVars>>

\* Variant: a failed call is issued once more before the error is reported.
SearchRaisesRetry(i) ==
  /\ pc[i] = "awaiting"
  /\ reply[i].t = "raise"
  /\ IF Len(CallsOf(i)) < 2
     THEN /\ client_search(i, CallsOf(i)[1].kwargs)
          /\ UNCHANGED <<result, pc>>
     ELSE /\ result' = [result EXCEPT ![i] = HandleException(reply[i].exc)]
          /\ pc' = [pc EXCEPT ![i] = "raised"]
          /\ UNCHANGED calls
  /\ UNCHANGED <<tool, args, locals, reply, response, normVars, fmtVars>>

\* client.search raised: the except clauses decide what the caller gets
SearchRaises(i) ==
  /\ pc[i] = "awaiting"
  /\ reply[i].t = "raise"
  /\ result' = [result EXCEPT ![i] = HandleException(reply[i].exc)]
  /\ pc' = [pc EXCEPT ![i] = "raised"]
  /\ UNCHANGED <<tool, args, locals, calls, reply, response, normVars, fmtVars>>

(***************************************************************************)
(* Explored invocations and provider replies.                              *)
(***************************************************************************)
Query == <<"q">>
MaxResultsArgs == {0, 5, 19, 25}
DepthArgs == {"basic", "advanced", "deep"}
DaysArgs == {0, 3, 366}
IncludeArgs == {<<>>, <<"a", ",", " ", "b">>, <<" ", ",", " ">>, <<"b", ",", ",", "a", " ">>}
ExcludeArgs == {<<>>, <<"c">>}

ArgsOf(t, MR, DP, DY, INC, EXC) ==
  IF t = NewsTool
  THEN {[query |-> Query, max_results |-> m, days |-> d,
         include_domains |-> a, exclude_domains |-> b] :
          m \in MR, d \in DY, a \in INC, b \in EXC}
  ELSE {[query |-> Query, max_results |-> m, search_depth |-> d,
         include_domains |-> a, exclude_domains |-> b] :
          m \in MR, d \in DP, a \in INC, b \in EXC}

Item1 == [title |-> <<"T">>, url |-> <<"U">>, content |-> <<"C">>,
          published_date |-> Absent]
Item2 == [title |-> <<"N">>, url |-> <<"V">>, content |-> <<"D">>,
          published_date |-> Some(<<"2", "0", "2", "4">>)]

ResultLists(items) == UNION {[1..k -> items] : k \in 0..MaxResults}

ProviderResponse(answer, results) ==
  [answer |-> answer, results |-> results,
   included_domains |-> Absent, excluded_domains |-> Absent]

OkReply(resp) == [t |-> "ok", response |-> resp, exc |-> [type |-> "", msg |-> ""]]
RaiseReply(type, msg) ==
  [t |-> "raise", response |-> ProviderResponse(Absent, <<>>),
   exc |-> [type |-> type, msg |-> msg]]

ExceptionTypes ==
  {"InvalidAPIKeyError", "UsageLimitExceededError", "ValueError", "ConnectionError"}
ErrMsgs == {"m1", "m2"}

Replies ==
  {OkReply(ProviderResponse(a, r)) :
     a \in {Absent, Some(<<"4", "2">>)}, r \in ResultLists({Item1, Item2})}
    \cup {RaiseReply(t, m) : t \in ExceptionTypes, m \in ErrMsgs}

ConcReplies ==
  {OkReply(ProviderResponse(Some(<<"4", "2">>), <<Item2>>)),
   RaiseReply("UsageLimitExceededError", "m1")}

Tools == {WebTool, AnswerTool, NewsTool}

(***************************************************************************)
(* Initial states: each specification explores one part of the server and  *)
(* leaves the variables of the other parts at rest.                        *)
(***************************************************************************)
NormIdle == raw = [t |-> "none", v |-> <<>>] /\ nres = Pending /\ hres = Pending

FmtIdle == fresp = ProviderResponse(Absent, <<>>) /\ ftext = Absent

InvFresh ==
  /\ locals = [i \in Inv |-> NoLocals]
  /\ calls = <<>>
  /\ response = [i \in Inv |-> Absent]
  /\ result = [i \in Inv |-> NoResult]

InvIdle ==
  /\ InvFresh
  /\ tool = [i \in Inv |-> WebTool]
  /\ args = [i \in Inv |-> CHOOSE a \in ArgsOf(WebTool, {5}, {"basic"}, {3}, {<<>>}, {<<>>}) : TRUE]
  /\ reply = [i \in Inv |-> OkReply(ProviderResponse(Absent, <<>>))]
  /\ pc = [i \in Inv |-> "unused"]

\* one invocation, of any tool with any explored parameters and provider reply
Init ==
  /\ NormIdle /\ FmtIdle /\ InvFresh
  /\ \E t \in Tools :
       \E a \in ArgsOf(t, MaxResultsArgs, DepthArgs, DaysArgs, IncludeArgs, ExcludeArgs) :
         \E r \in Replies :
           /\ tool = [i \in Inv |-> t]
           /\ args = [i \in Inv |-> a]
           /\ reply = [i \in Inv |-> r]
  /\ pc = [i \in Inv |-> IF i = 1 THEN "ready" ELSE "unused"]

\* NInv concurrent invocations
ConcArgs(t) ==
  ArgsOf(t, {5}, {"basic"}, {3}, {<<>>}, {<<>>})
    \cup ArgsOf(t, {5}, {"basic"}, {3}, {<<"a", ",", " ", "b">>}, {<<"c">>})

InitConc ==
  /\ NormIdle /\ FmtIdle /\ InvFresh
  /\ tool \in [Inv -> Tools]
  /\ args \in [Inv -> UNION {ConcArgs(t) : t \in Tools}]
  /\ \A i \in Inv : args[i] \in ConcArgs(tool[i])
  /\ reply \in [Inv -> ConcReplies]
  /\ pc = [i \in Inv |-> "ready"]

Next ==
  \E i \in Inv :
    \/ tavily_web_search(i)
    \/ tavily_answer_search(i)
    \/ tavily_news_search(i)
    \/ SearchReturns(i)
    \/ SearchRaises(i)

Spec == Init /\ [][Next]_vars

SpecConc == InitConc /\ [][Next]_vars

(***************************************************************************)
(* The formatter applied to one SearchResponse.                            *)
(***************************************************************************)
FmtItems ==
  {Item1, Item2,
   [title |-> <<"N">>, url |-> <<"V">>, content |-> <<>>, published_date |-> Some(<<>>)]}

FmtResponses ==
  {[answer |-> a, results |-> r, included_domains |-> inc, excluded_domains |-> exc] :
     a \in {Absent, Some(<<>>), Some(<<"4", "2">>)},
     r \in ResultLists(FmtItems),
     inc \in {Absent, Some(<<>>), Some(<<<<"a">>>>), Some(<<<<"a">>, <<"b">>>>)},
     exc \in {Absent, Some(<<<<"c">>>>)}}

InitFmt ==
  /\ NormIdle /\ InvIdle
  /\ fresp \in FmtResponses
  /\ ftext = Absent

Format ==
  /\ ftext = Absent
  /\ ftext' = Some(format_results(fresp))
  /\ UNCHANGED <<fresp, normVars, invVars>>

NextFmt == Format

SpecFmt == InitFmt /\ [][NextFmt]_vars

(***************************************************************************)
(* The two normalisation paths applied to one raw value.                   *)
(***************************************************************************)
InitNorm ==
  /\ InvIdle /\ FmtIdle
  /\ raw \in RawInputs
  /\ nres = Pending
  /\ hres = Pending

\* the field validator of SearchBase runs on the raw value
Validate ==
  /\ nres = Pending
  /\ nres' = parse_domains_list(raw)
  /\ UNCHANGED <<raw, hres, invVars, fmtVars>>

\* a handler receives the same text as its include_domains / exclude_domains
HandlerParse ==
  /\ raw.t = "str"
  /\ hres = Pending
  /\ hres' = Returned(ParseDomainParam(raw.v))
  /\ UNCHANGED <<raw, nres, invVars, fmtVars>>

NextNorm == Validate \/ HandlerParse

SpecNorm == InitNorm /\ [][NextNorm]_vars

(***************************************************************************)
(* Properties.                                                             *)
(***************************************************************************)
NoBlank(l) == \A k \in 1..Len(l) : strip(l[k]) # <<>>

NonBlankStripped(strs) ==
  SelectSeq([k \in 1..Len(strs) |-> strip(strs[k])], LAMBDA d : d # <<>>)

AllStr(l) == \A k \in 1..Len(l) : l[k].t = "str"
TextsOf(l) == [k \in 1..Len(l) |-> l[k].v]

RawJson == json_loads(strip(raw.v))

\* null, a list of strings, or a string that is a JSON array of strings, a
\* single string or comma-separated
SupportedShape ==
  \/ raw.t = "none"
  \/ raw.t = "list" /\ AllStr(raw.v)
  \/ raw.t = "str" /\ RawJson.t \in {"err", "str"}
  \/ raw.t = "str" /\ RawJson.t = "list" /\ AllStr(RawJson.v)

\* the elements of a supported input, in input order
SourceElements ==
  IF raw.t = "none" THEN <<>>
  ELSE IF raw.t = "list" THEN TextsOf(raw.v)
  ELSE IF RawJson.t = "list" THEN TextsOf(RawJson.v)
  ELSE IF RawJson.t = "str" THEN <<RawJson.v>>
  ELSE split(strip(raw.v), ",")

\* C1: for every input of a supported shape, parse_domains_list returns a list with
\* no empty or whitespace-only element, holding the surviving elements in input order.
C1NoBlankEntries ==
  (SupportedShape /\ nres # Pending) =>
     /\ nres.t = "ok"
     /\ NoBlank(nres.v)
     /\ nres.v = NonBlankStripped(SourceElements)

OutOfRange(i) ==
  \/ args[i].max_results \notin 1..19
  \/ tool[i] = NewsTool /\ args[i].days \notin 1..365

NCalls(i) == Len(CallsOf(i))
Sent(i) == CallsOf(i)[1].kwargs

Started(i) == pc[i] \in {"awaiting", "returned", "raised"}
Finished(i) == pc[i] \in {"returned", "raised"}

\* C2: an out-of-range max_results (or days, for news search) is rejected with
\* an invalid-parameter error and no call to the search provider is made.
C2RejectedBeforeCall ==
  \A i \in Inv :
    (pc[i] # "unused" /\ OutOfRange(i)) =>
       /\ NCalls(i) = 0
       /\ Finished(i) => (result[i].t = "McpError" /\ result[i].kind = "invalid_params")

\* C3: parse_domains_list never fails: whatever the raw value, it returns a list; a
\* string that parses as a non-array JSON value gives one element, and a value that
\* is neither null, a list nor a string gives the empty list.
C3NeverFails ==
  nres # Pending =>
     /\ nres.t = "ok"
     /\ (raw.t = "str" /\ strip(raw.v) # <<>> /\ RawJson.t \notin {"err", "list"})
          => Len(nres.v) = 1
     /\ raw.t = "int" => nres.v = <<>>

\* C4: every invocation performs exactly one call to the search provider, whether
\* the call succeeds or fails; a failed call is not retried, and the invocation then
\* ends with an error and no text.
C4ExactlyOneCall ==
  \A i \in Inv :
    /\ pc[i] = "ready" => NCalls(i) = 0
    /\ Started(i) => NCalls(i) = 1
    /\ (Started(i) /\ reply[i].t = "raise" /\ pc[i] # "awaiting") =>
         /\ pc[i] = "raised"
         /\ result[i].t \in {"McpError", "exception"}
         /\ result[i].text = <<>>
         /\ response[i] = Absent
    /\ pc[i] = "returned" => (reply[i].t = "ok" /\ result[i].t = "text")

C4Witness ==
  \E i \in Inv : pc[i] = "raised" /\ NCalls(i) = 1 /\ result[i].t = "McpError"

ExpectedDepth(i) ==
  IF args[i].search_depth \in {"basic", "advanced"} THEN args[i].search_depth
  ELSE IF tool[i] = WebTool THEN "basic" ELSE "advanced"

\* C5: a search_depth other than "basic" or "advanced" never makes a search fail:
\* web search calls the provider with "basic", answer search with "advanced", and a
\* recognized value is passed unchanged.
C5DepthFallback ==
  \A i \in Inv :
    (tool[i] \in {WebTool, AnswerTool} /\ Started(i)) =>
       /\ NCalls(i) > 0
       /\ Sent(i).search_depth = ExpectedDepth(i)
       /\ (Finished(i) /\ reply[i].t = "ok") => result[i].t = "text"

C5Witness ==
  \E i \in Inv :
    /\ tool[i] = AnswerTool /\ args[i].search_depth = "deep"
    /\ pc[i] = "returned" /\ Sent(i).search_depth = "advanced"

\* C6 as claimed: every failure reaches the caller as internal_error (authentication
\* or usage-limit failure) or invalid_params (value-validation failure), with the
\* failure's message.
C6EveryFailureStructured ==
  \A i \in Inv :
    pc[i] = "raised" =>
       /\ result[i].t = "McpError"
       /\ result[i].kind \in {"internal_error", "invalid_params"}
       /\ result[i].message = reply[i].exc.msg

\* C6 amended: an authentication or usage-limit failure reaches the caller as
\* internal_error and a ValueError as invalid_params, each with the failure's
\* message; a failure of any other type is not converted and propagates as raised.
C6ErrorMapping ==
  \A i \in Inv :
    pc[i] = "raised" =>
       LET e == reply[i].exc
       IN  /\ e.type \in {"InvalidAPIKeyError", "UsageLimitExceededError"} =>
                result[i] = [t |-> "McpError", text |-> <<>>,
                             kind |-> "internal_error", message |-> e.msg]
           /\ e.type = "ValueError" =>
                result[i] = [t |-> "McpError", text |-> <<>>,
                             kind |-> "invalid_params", message |-> e.msg]
           /\ e.type \notin {"InvalidAPIKeyError", "UsageLimitExceededError", "ValueError"} =>
                result[i] = [t |-> "exception", text |-> <<>>,
                             kind |-> e.type, message |-> e.msg]

C6Witness ==
  \E i \in Inv :
    /\ pc[i] = "raised" /\ reply[i].exc.type = "UsageLimitExceededError"
    /\ result[i].kind = "internal_error" /\ result[i].message = "m2"

(***************************************************************************)
(* The rendering, line by line.                                            *)
(***************************************************************************)
LnSources == <<"S", "o", "u", "r", "c", "e", "s", ":">>
LnTitle == <<"T", "i", "t", "l", "e", ":", " ">>
Blank == <<>>

FilterLines(inc, exc) ==
  IF inc = <<>> /\ exc = <<>> THEN <<>>
  ELSE <<TxtSearchFilters>>
         \o (IF inc # <<>> THEN <<TxtIncluding \o join(TxtCommaSpace, inc)>> ELSE <<>>)
         \o (IF exc # <<>> THEN <<TxtExcluding \o join(TxtCommaSpace, exc)>> ELSE <<>>)
         \o <<Blank>>

ListOrEmpty(opt) == IF opt = Absent THEN <<>> ELSE opt[1]

RECURSIVE ResultBlocks(_)
ResultBlocks(results) ==
  IF results = <<>> THEN <<>>
  ELSE LET r == Head(results)
       IN  <<Blank, LnTitle \o r.title, TxtURL \o r.url, TxtContent \o r.content>>
             \o (IF ListOrEmpty(r.published_date) # <<>>
                 THEN <<TxtPublished \o r.published_date[1]>> ELSE <<>>)
             \o ResultBlocks(Tail(results))

\* the answer section; sep is what stands between the "Answer:" and "Sources:" lines
AnswerLines(resp, sep) ==
  IF ListOrEmpty(resp.answer) = <<>> THEN <<>>
  ELSE <<TxtAnswer \o resp.answer[1]>> \o sep \o <<LnSources>>
         \o [k \in 1..Len(resp.results) |->
               TxtDash \o resp.results[k].title \o TxtColon \o resp.results[k].url]
         \o <<Blank>>

RenderedLines(resp, sep) ==
  FilterLines(ListOrEmpty(resp.included_domains), ListOrEmpty(resp.excluded_domains))
    \o AnswerLines(resp, sep)
    \o <<TxtDetailed>> \o ResultBlocks(resp.results)

\* C7 as claimed: the text is the newline-joined lines: the filter block if a filter
\* is present; if an answer is present "Answer: ..." directly followed by "Sources:",
\* the "- title: url" lines and a blank line; then "Detailed Results:" and, per
\* result, a blank line, Title, URL, Content and Published only when present.
C7LinesAsClaimed ==
  ftext # Absent => ftext[1] = join(NL, RenderedLines(fresp, <<>>))

\* C7 amended: the same, except that one blank line stands between the
\* "Answer: ..." line and the "Sources:" line.
C7LinesWithBlankBeforeSources ==
  ftext # Absent => ftext[1] = join(NL, RenderedLines(fresp, <<Blank>>))

C7Witness ==
  /\ ftext # Absent
  /\ fresp.answer = Some(<<"4", "2">>)
  /\ fresp.included_domains = Some(<<<<"a">>, <<"b">>>>)
  /\ fresp.excluded_domains # Absent
  /\ Len(fresp.results) = 2
  /\ fresp.results[1].published_date = Absent
  /\ fresp.results[2].published_date = Some(<<"2", "0", "2", "4">>)
  /\ Len(split(ftext[1], "\n")) = 20

\* split on comma, trim each piece, drop the empty ones
NormalizedDomains(s) == NonBlankStripped(split(s, ","))

\* C8: on a successful provider call each non-empty normalized filter is attached to
\* the response and the text starts with a "Search Filters:" block listing exactly the
\* caller's normalized domains, comma+space joined in order; an empty filter is not
\* attached, and with both empty the text has no "Search Filters:" line.
C8FiltersEchoed ==
  \A i \in Inv :
    pc[i] = "returned" =>
       LET inc == NormalizedDomains(args[i].include_domains)
           exc == NormalizedDomains(args[i].exclude_domains)
           lines == split(result[i].text, "\n")
           block == FilterLines(inc, exc)
       IN  /\ response[i] # Absent
           /\ response[i][1].included_domains = (IF inc # <<>> THEN Some(inc) ELSE Absent)
           /\ response[i][1].excluded_domains = (IF exc # <<>> THEN Some(exc) ELSE Absent)
           /\ Len(lines) >= Len(block)
           /\ SubSeq(lines, 1, Len(block)) = block
           /\ \A k \in (Len(block) + 1)..Len(lines) : lines[k] # TxtSearchFilters

C8Witness ==
  \E i \in Inv :
    /\ pc[i] = "returned"
    /\ args[i].include_domains = <<"b", ",", ",", "a", " ">>
    /\ args[i].exclude_domains = <<"c">>
    /\ response[i][1].included_domains = Some(<<<<"b">>, <<"a">>>>)
    /\ response[i][1].excluded_domains = Some(<<<<"c">>>>)

OwnText(i) ==
  format_results(AttachFilters(reply[i].response,
                               ParseDomainParam(args[i].include_domains),
                               ParseDomainParam(args[i].exclude_domains)))

\* C9: under any interleaving of concurrent invocations, what an invocation sends to
\* the provider and what it returns depend only on its own parameters and its own
\* provider reply; the filters of one invocation never appear in another's text.
C9Independent ==
  \A i \in Inv :
    /\ Started(i) =>
         /\ NCalls(i) = 1
         /\ Sent(i).include_domains = NormalizedDomains(args[i].include_domains)
         /\ Sent(i).exclude_domains = NormalizedDomains(args[i].exclude_domains)
    /\ pc[i] = "returned" =>
         /\ result[i] = [t |-> "text", text |-> OwnText(i), kind |-> "", message |-> ""]
         /\ (args[i].include_domains = <<>> /\ args[i].exclude_domains = <<>>) =>
              \A k \in 1..Len(split(result[i].text, "\n")) :
                 split(result[i].text, "\n")[k] # TxtSearchFilters
    /\ pc[i] = "raised" =>
         /\ result[i].message = reply[i].exc.msg
         /\ result[i].text = <<>>

\* i called the provider first and is still suspended there, with filters in its
\* locals, when j, which has none, has called and returned
C9Witness ==
  \E i, j \in Inv :
    /\ i # j
    /\ Len(calls) = 2 /\ calls[1].inv = i /\ calls[2].inv = j
    /\ pc[i] = "awaiting" /\ locals[i].include_list # <<>>
    /\ pc[j] = "returned" /\ args[j].include_domains = <<>>

\* C10: for every string whose trimmed form does not parse as JSON, the handlers'
\* parsing (split on comma, trim, drop empties) and parse_domains_list give the
\* same list; the two can differ only on strings that parse as JSON.
C10PathsAgree ==
  (raw.t = "str" /\ nres # Pending /\ hres # Pending) =>
     (nres # hres => RawJson.t # "err")

C10Witness ==
  /\ raw.t = "str" /\ nres # Pending /\ hres # Pending
  /\ RawJson.t = "err"
  /\ Contains(raw.v, ",") /\ raw.v[1] = " "
  /\ nres = hres /\ Len(nres.v) = 2

====
